---- MODULE Spec2Model ----
(***************************************************************************)
(* Donation inventory backend (src/app.py): the request validator          *)
(* validate_payload / parse_iso_date and the four CRUD handlers over the   *)
(* "donations" table.                                                      *)
(*                                                                         *)
(* Python strings are sequences of one-character strings; JSON values are  *)
(* tagged records [t, v]; a JSON object is a function from its keys.       *)
(***************************************************************************)
EXTENDS Integers, Sequences, FiniteSets, TLC

VARIABLES
    store,      \* the donations table: id -> row
    assigned,   \* history: every id the table has ever handed out
    now,        \* the last value datetime.utcnow() returned
    response,   \* the last HTTP response: [status, body]
    session,    \* per request thread: the SQLAlchemy session of an update in flight
    payload,    \* validator run: the request JSON given to validate_payload
    partial,    \* validator run: its partial flag
    validated   \* validator run: what validate_payload returned

vars == <<store, assigned, now, response, session, payload, partial, validated>>

(***************************************************************************)
(* Bounds of the model.                                                    *)
(***************************************************************************)
MaxId == 2      \* create is offered while the id it would assign is <= MaxId
MaxTime == 4    \* the clock reads up to MaxTime: requests that read it are offered before that
MaxInt == 2     \* validator inputs: integers -MaxInt..MaxInt

(***************************************************************************)
(* JSON values and strings                                                 *)
(***************************************************************************)
None == [t |-> "null", v |-> 0]
JStr(s) == [t |-> "str", v |-> s]
JInt(n) == [t |-> "int", v |-> n]
JFloat(tenths) == [t |-> "float", v |-> tenths]
JBool(b) == [t |-> "bool", v |-> b]

EmptyDict == [k \in {} |-> None]

\* dict.get(key): None for an absent key and for a JSON null alike
Get(d, key) == IF key \in DOMAIN d THEN d[key] ELSE None

Whitespace == {" ", "\t", "\n"}

\* str.strip(): whitespace removed from both ends
RECURSIVE lstrip(_)
lstrip(s) == IF s # <<>> /\ Head(s) \in Whitespace THEN lstrip(Tail(s)) ELSE s
RECURSIVE rstrip(_)
rstrip(s) == IF s # <<>> /\ s[Len(s)] \in Whitespace
             THEN rstrip(SubSeq(s, 1, Len(s) - 1)) ELSE s
strip(s) == rstrip(lstrip(s))

\* isinstance(v, int): bool is a subclass of int in Python
isinstance_int(v) == v.t \in {"int", "bool"}

\* the number an int (or bool) compares as and is bound as to an INTEGER column
int_value(v) == IF v.t = "bool" THEN (IF v.v THEN 1 ELSE 0) ELSE v.v

\* abort(code, description) ends the request; Return(x) is a normal return
Abort(code, description) == [aborted |-> TRUE, code |-> code, description |-> description]
Return(x) == [aborted |-> FALSE, value |-> x]

(***************************************************************************)
(* Dates: datetime.fromisoformat(value).date() and date.isoformat()        *)
(***************************************************************************)
Digits == <<"0", "1", "2", "3", "4", "5", "6", "7", "8", "9">>
IsDigit(c) == \E i \in 1..10 : Digits[i] = c
DigitVal(c) == (CHOOSE i \in 1..10 : Digits[i] = c) - 1
AllDigits(s) == \A i \in 1..Len(s) : IsDigit(s[i])

RECURSIVE ToInt(_)
ToInt(s) == IF s = <<>> THEN 0
            ELSE 10 * ToInt(SubSeq(s, 1, Len(s) - 1)) + DigitVal(s[Len(s)])

IsLeap(y) == (y % 4 = 0) /\ ((y % 100 # 0) \/ (y % 400 = 0))
DaysInMonth(y, m) ==
    IF m = 2 THEN (IF IsLeap(y) THEN 29 ELSE 28)
    ELSE IF m \in {4, 6, 9, 11} THEN 30 ELSE 31

\* the time part after the separator: HH, HH:MM or HH:MM:SS
ValidTime(s) ==
    /\ Len(s) \in {2, 5, 8}
    /\ AllDigits(SubSeq(s, 1, 2)) /\ ToInt(SubSeq(s, 1, 2)) < 24
    /\ Len(s) >= 5 => /\ s[3] = ":"
                      /\ AllDigits(SubSeq(s, 4, 5)) /\ ToInt(SubSeq(s, 4, 5)) < 60
    /\ Len(s) = 8 => /\ s[6] = ":"
                     /\ AllDigits(SubSeq(s, 7, 8)) /\ ToInt(SubSeq(s, 7, 8)) < 60

\* datetime.fromisoformat(s).date(): YYYY-MM-DD, optionally one separator
\* character and a time; [ok |-> FALSE] stands for ValueError
fromisoformat_date(s) ==
    LET y == ToInt(SubSeq(s, 1, 4))
        m == ToInt(SubSeq(s, 6, 7))
        d == ToInt(SubSeq(s, 9, 10))
        shaped == /\ Len(s) >= 10
                  /\ AllDigits(SubSeq(s, 1, 4)) /\ s[5] = "-"
                  /\ AllDigits(SubSeq(s, 6, 7)) /\ s[8] = "-"
                  /\ AllDigits(SubSeq(s, 9, 10))
                  /\ Len(s) > 10 => ValidTime(SubSeq(s, 12, Len(s)))
    IN  IF shaped /\ y >= 1 /\ m \in 1..12 /\ d >= 1 /\ d <= DaysInMonth(y, m)
        THEN [ok |-> TRUE, date |-> [year |-> y, month |-> m, day |-> d]]
        ELSE [ok |-> FALSE, date |-> [year |-> 0, month |-> 0, day |-> 0]]

\* zero-padded decimal of width w
RECURSIVE Pad(_, _)
Pad(n, w) == IF w = 0 THEN <<>> ELSE Append(Pad(n \div 10, w - 1), Digits[(n % 10) + 1])

\* date.isoformat()
isoformat(d) == Pad(d.year, 4) \o <<"-">> \o Pad(d.month, 2) \o <<"-">> \o Pad(d.day, 2)

parse_iso_date(value) ==
    IF value.t # "str"
    THEN Abort(400, <<"date", " must be a string in ISO format (YYYY-MM-DD)">>)
    ELSE LET r == fromisoformat_date(value.v)
         IN  IF r.ok THEN Return(r.date)
             ELSE Abort(400, <<"Invalid ", "date", " format; expected ISO (YYYY-MM-DD)">>)

(***************************************************************************)
(* validate_payload                                                        *)
(***************************************************************************)
money == <<"m", "o", "n", "e", "y">>
food == <<"f", "o", "o", "d">>
clothing == <<"c", "l", "o", "t", "h", "i", "n", "g">>
other == <<"o", "t", "h", "e", "r">>

\* mutant: the enumeration lets "clothes" through
allowed_types_lax == {money, food, clothing, other, <<"c", "l", "o", "t", "h", "e", "s">>}

allowed_types == {money, food, clothing, other}

get_str(p, key, required) ==
    LET v == Get(p, key)
    IN  IF v = None
        THEN IF required THEN Abort(400, <<"Missing required field: ", key>>)
             ELSE Return(None)
        ELSE IF v.t # "str" \/ strip(v.v) = <<>>
             THEN Abort(400, <<key, " must be a non-empty string">>)
             ELSE Return(JStr(strip(v.v)))

\* mutant: the "v < 1" test is lost
get_int_any(p, key, required) ==
    LET v == Get(p, key)
    IN  IF v = None
        THEN IF required THEN Abort(400, <<"Missing required field: ", key>>)
             ELSE Return(None)
        ELSE IF ~isinstance_int(v)
             THEN Abort(400, <<key, " must be a positive integer">>)
             ELSE Return(v)

get_int(p, key, required) ==
    LET v == Get(p, key)
    IN  IF v = None
        THEN IF required THEN Abort(400, <<"Missing required field: ", key>>)
             ELSE Return(None)
        ELSE IF ~isinstance_int(v) \/ int_value(v) < 1
             THEN Abort(400, <<key, " must be a positive integer">>)
             ELSE Return(v)

\* out[key] = value when value is not None
Put(key, value) == IF value = None THEN EmptyDict ELSE (key :> value)

\* Returns Return(out) or the first Abort met, in the order of the code:
\* donor_name, donation_type, quantity_or_amount, date.
validate_payload(p, part) ==
    LET donor_name == get_str(p, "donor_name", ~part)
        donation_type == get_str(p, "donation_type", ~part)
        qty == get_int(p, "quantity_or_amount", ~part)
        date_str == Get(p, "date")
        date == parse_iso_date(date_str)
    IN  IF donor_name.aborted THEN donor_name
        ELSE IF donation_type.aborted THEN donation_type
        ELSE IF donation_type.value # None /\ donation_type.value.v \notin allowed_types
        THEN Abort(400, <<"donation_type", " must be one of ",
                          "['clothing', 'food', 'money', 'other']">>)
        ELSE IF qty.aborted THEN qty
        ELSE IF date_str = None /\ ~part
        THEN Abort(400, <<"Missing required field: ", "date">>)
        ELSE IF date_str # None /\ date.aborted THEN date
        ELSE Return(Put("donor_name", donor_name.value)
                    @@ Put("donation_type", donation_type.value)
                    @@ Put("quantity_or_amount", qty.value)
                    @@ (IF date_str # None THEN "date" :> date.value ELSE EmptyDict))

(***************************************************************************)
(* Inputs                                                                  *)
(***************************************************************************)
Absent == [t |-> "absent", v |-> 0]
Field(key, x) == IF x = Absent THEN EmptyDict ELSE (key :> x)
Obj(name, type, qty, date) ==
    Field("donor_name", name) @@ Field("donation_type", type)
    @@ Field("quantity_or_amount", qty) @@ Field("date", date)

Al == <<"A", "l">>
Bo == <<"B", "o">>
clothes == <<"c", "l", "o", "t", "h", "e", "s">>
Jan15 == <<"2", "0", "2", "4", "-", "0", "1", "-", "1", "5">>
Jan15T10 == Jan15 \o <<"T", "1", "0", ":", "0", "0", ":", "0", "0">>
Feb29 == <<"2", "0", "2", "4", "-", "0", "2", "-", "2", "9">>
Feb30 == <<"2", "0", "2", "4", "-", "0", "2", "-", "3", "0">>
Slashed == <<"1", "5", "/", "0", "1", "/", "2", "0", "2", "4">>

NameInputs == {Absent, None, JInt(1), JStr(<<>>), JStr(<<" ">>), JStr(Al),
               JStr(<<" ">> \o Al \o <<" ">>)}
TypeInputs == {Absent, None, JInt(1), JStr(<<>>), JStr(food), JStr(clothing),
               JStr(<<" ">> \o money \o <<"\n">>), JStr(<<"F", "o", "o", "d">>),
               JStr(clothes)}
QtyInputs == {Absent, None, JFloat(10), JFloat(25), JStr(<<"2">>), JBool(TRUE), JBool(FALSE)}
             \cup {JInt(n) : n \in (0 - MaxInt)..MaxInt}
DateInputs == {Absent, None, JInt(1), JStr(<<>>), JStr(Jan15), JStr(Jan15T10),
               JStr(Feb29), JStr(Feb30), JStr(Slashed)}

\* the payloads validate_payload is run on
Payloads == {Obj(a, b, c, d) : a \in NameInputs, b \in TypeInputs,
                               c \in QtyInputs, d \in DateInputs}

\* the request bodies sent to the handlers
PAl == Obj(JStr(<<" ">> \o Al \o <<" ">>), JStr(food), JInt(3), JStr(Jan15T10))
PBo == Obj(JStr(Bo), JStr(<<" ">> \o money \o <<" ">>), JBool(TRUE), JStr(Feb29))
UWho == Obj(JStr(Bo), JStr(money), Absent, JStr(Feb29))
UQty == Obj(None, Absent, JInt(1), Absent)
UEmpty == Obj(Absent, Absent, Absent, Absent)
PClothes == Obj(JStr(Al), JStr(clothes), JInt(3), JStr(Jan15))
UZero == Obj(Absent, Absent, JInt(0), Absent)
UBadDate == Obj(Absent, Absent, Absent, JStr(Feb30))
UBlank == Obj(JStr(<<" ">>), Absent, Absent, Absent)

Requests == {PAl, PBo, UWho, UQty, UEmpty, PClothes, UZero, UBadDate, UBlank}
ConcRequests == {PAl, UWho, UZero}

\* validate_payload is pure: what the handlers get from it for each request
\* body, in each mode, tabulated once
validate_request == [p \in Requests |-> [part \in BOOLEAN |-> validate_payload(p, part)]]

(***************************************************************************)
(* The donations table (class Donation) and the handlers                   *)
(***************************************************************************)
Ids == 1..MaxId          \* the <int:donation_id> a request may name

\* datetime.utcnow(): a request reads the clock one instant after the last
\* read; a second read in the same request may still fall in that instant
utcnow == {t \in {now + 1} : t <= MaxTime}
utcnow_again(t) == {u \in {t, t + 1} : u <= MaxTime}

BusinessColumns == {"donor_name", "donation_type", "quantity_or_amount", "date"}
Columns == BusinessColumns \cup {"id", "created_at", "updated_at"}

SetMax(S) == CHOOSE i \in S : \A j \in S : i >= j

\* id is an INTEGER PRIMARY KEY without AUTOINCREMENT: SQLite gives an insert
\* one more than the largest id now in the table, 1 for an empty table
next_rowid(table) == IF DOMAIN table = {} THEN 1 ELSE SetMax(DOMAIN table) + 1

\* Donation(...) as the INSERT stores it
Donation(id, data, created_at, updated_at) ==
    [id |-> id,
     donor_name |-> data["donor_name"].v,
     donation_type |-> data["donation_type"].v,
     quantity_or_amount |-> int_value(data["quantity_or_amount"]),
     date |-> data["date"],
     created_at |-> created_at,
     updated_at |-> updated_at]

to_dict(row) ==
    [id |-> row.id,
     donor_name |-> row.donor_name,
     donation_type |-> row.donation_type,
     quantity_or_amount |-> row.quantity_or_amount,
     date |-> isoformat(row.date)]

\* mutant: order_by(Donation.id) without desc()
RECURSIVE order_by_id_asc(_)
order_by_id_asc(table) ==
    IF DOMAIN table = {} THEN <<>>
    ELSE LET top == SetMax(DOMAIN table)
         IN  order_by_id_asc([i \in DOMAIN table \ {top} |-> table[i]]) \o <<table[top]>>

\* Donation.query.order_by(Donation.id.desc()).all()
RECURSIVE order_by_id_desc(_)
order_by_id_desc(table) ==
    IF DOMAIN table = {} THEN <<>>
    ELSE LET top == SetMax(DOMAIN table)
         IN  <<table[top]>> \o order_by_id_desc([i \in DOMAIN table \ {top} |-> table[i]])

\* a response: the view function that answered, the status, the body
Respond(endpoint, status, body) == [endpoint |-> endpoint, status |-> status, body |-> body]

NotJson(endpoint) == Respond(endpoint, 400, <<"Request must be application/json">>)
NotFound(endpoint) == Respond(endpoint, 404, <<"Donation not found">>)
NoResponse == Respond("", 0, <<>>)

\* jsonify([r.to_dict() for r in rows])
list_body(table) ==
    [i \in 1..Cardinality(DOMAIN table) |-> to_dict(order_by_id_desc(table)[i])]

\* mutant: a field that was not supplied is written too (as a default)
apply_fields_all(row, data, t) ==
    [row EXCEPT
       !.donor_name = IF "donor_name" \in DOMAIN data THEN data["donor_name"].v ELSE @,
       !.donation_type = IF "donation_type" \in DOMAIN data THEN data["donation_type"].v ELSE @,
       !.quantity_or_amount = IF "quantity_or_amount" \in DOMAIN data
                              THEN int_value(data["quantity_or_amount"]) ELSE 1,
       !.date = IF "date" \in DOMAIN data THEN data["date"] ELSE @,
       !.updated_at = t]

\* the four "if key in data: row.key = data[key]" and the updated_at stamp
apply_fields(row, data, t) ==
    [row EXCEPT
       !.donor_name = IF "donor_name" \in DOMAIN data THEN data["donor_name"].v ELSE @,
       !.donation_type = IF "donation_type" \in DOMAIN data THEN data["donation_type"].v ELSE @,
       !.quantity_or_amount = IF "quantity_or_amount" \in DOMAIN data
                              THEN int_value(data["quantity_or_amount"]) ELSE @,
       !.date = IF "date" \in DOMAIN data THEN data["date"] ELSE @,
       !.updated_at = t]

\* the columns the session's flush puts in its UPDATE: those whose value
\* differs from the value the row was loaded with
dirty(loaded, row) == {c \in Columns : row[c] # loaded[c]}

\* UPDATE donations SET <dirty columns> WHERE id = loaded.id
flush(table, loaded, row) ==
    [table EXCEPT ![loaded.id] =
        [c \in Columns |-> IF c \in dirty(loaded, row) THEN row[c] ELSE @[c]]]

NumThreads == 2   \* request threads that may hold an update in flight
Threads == 1..NumThreads

Idle == [pc |-> "idle", id |-> 0]
NotRun == [pending |-> TRUE]

StoreIdle == UNCHANGED <<session, payload, partial, validated>>

list_donations ==
    /\ response' = Respond("list_donations", 200, list_body(store))
    /\ UNCHANGED <<store, assigned, now>>
    /\ StoreIdle

create_donation(is_json, p) ==
    LET data == validate_request[p][FALSE]
    IN  /\ IF ~is_json
           THEN response' = NotJson("create_donation") /\ UNCHANGED <<store, assigned, now>>
           ELSE IF data.aborted
           THEN response' = Respond("create_donation", data.code, data.description)
                /\ UNCHANGED <<store, assigned, now>>
           ELSE /\ next_rowid(store) <= MaxId
                /\ \E created_at \in utcnow : \E updated_at \in utcnow_again(created_at) :
                     LET row == Donation(next_rowid(store), data.value,
                                         created_at, updated_at)
                     IN  /\ now' = updated_at
                         /\ store' = (row.id :> row) @@ store
                         /\ assigned' = assigned \cup {row.id}
                         /\ response' = Respond("create_donation", 201, to_dict(row))
        /\ StoreIdle

\* mutant: the row is looked up before the payload is validated
update_donation_lookup_first(is_json, donation_id, p) ==
    LET data == validate_request[p][TRUE]
    IN  /\ IF ~is_json
           THEN response' = NotJson("update_donation") /\ UNCHANGED <<store, assigned, now>>
           ELSE IF donation_id \notin DOMAIN store
           THEN response' = NotFound("update_donation") /\ UNCHANGED <<store, assigned, now>>
           ELSE IF data.aborted
           THEN response' = Respond("update_donation", data.code, data.description)
                /\ UNCHANGED <<store, assigned, now>>
           ELSE \E t \in utcnow :
                  LET row == apply_fields(store[donation_id], data.value, t)
                  IN  /\ now' = t
                      /\ store' = flush(store, store[donation_id], row)
                      /\ response' = Respond("update_donation", 200, to_dict(store'[donation_id]))
                      /\ UNCHANGED assigned
        /\ StoreIdle

update_donation(is_json, donation_id, p) ==
    LET data == validate_request[p][TRUE]
    IN  /\ IF ~is_json
           THEN response' = NotJson("update_donation") /\ UNCHANGED <<store, assigned, now>>
           ELSE IF data.aborted
           THEN response' = Respond("update_donation", data.code, data.description)
                /\ UNCHANGED <<store, assigned, now>>
           ELSE IF donation_id \notin DOMAIN store
           THEN response' = NotFound("update_donation") /\ UNCHANGED <<store, assigned, now>>
           ELSE \E t \in utcnow :
                  LET row == apply_fields(store[donation_id], data.value, t)
                  IN  /\ now' = t
                      /\ store' = flush(store, store[donation_id], row)
                      /\ response' = Respond("update_donation", 200, to_dict(store'[donation_id]))
                      /\ UNCHANGED assigned
        /\ StoreIdle

\* mutant: deleting an id that has no record is a silent success
delete_donation_silent(donation_id) ==
    /\ store' = [i \in DOMAIN store \ {donation_id} |-> store[i]]
    /\ response' = Respond("delete_donation", 204, <<>>)
    /\ UNCHANGED <<assigned, now>>
    /\ StoreIdle

delete_donation(donation_id) ==
    /\ IF donation_id \notin DOMAIN store
       THEN response' = NotFound("delete_donation") /\ UNCHANGED store
       ELSE /\ store' = [i \in DOMAIN store \ {donation_id} |-> store[i]]
            /\ response' = Respond("delete_donation", 204, <<>>)
    /\ UNCHANGED <<assigned, now>>
    /\ StoreIdle

(***************************************************************************)
(* update_donation as it runs when requests overlap: the SELECT of line    *)
(* 169, the attribute writes of lines 174-179 on the session's copy, and   *)
(* the flush and COMMIT of line 180 are separate steps of a thread.        *)
(***************************************************************************)
ConcIdle == UNCHANGED <<payload, partial, validated>>

update_get(t, is_json, donation_id, p) ==
    LET data == validate_request[p][TRUE]
    IN  /\ session[t].pc \in {"idle", "done"}
        /\ IF ~is_json
           THEN response' = NotJson("update_donation") /\ UNCHANGED session
           ELSE IF data.aborted
           THEN response' = Respond("update_donation", data.code, data.description)
                /\ UNCHANGED session
           ELSE IF donation_id \notin DOMAIN store
           THEN response' = NotFound("update_donation") /\ UNCHANGED session
           ELSE /\ session' = [session EXCEPT ![t] =
                      [pc |-> "loaded", id |-> donation_id, data |-> data.value,
                       loaded |-> store[donation_id], row |-> store[donation_id]]]
                /\ UNCHANGED response
        /\ UNCHANGED <<store, assigned, now>>
        /\ ConcIdle

update_apply(t) ==
    /\ session[t].pc = "loaded"
    /\ \E ts \in utcnow :
         /\ now' = ts
         /\ session' = [session EXCEPT
                          ![t].pc = "applied",
                          ![t].row = apply_fields(session[t].loaded, session[t].data, ts)]
    /\ UNCHANGED <<store, assigned, response>>
    /\ ConcIdle

\* The flush emits no UPDATE when nothing is dirty; an UPDATE that matches no
\* row raises StaleDataError, and reloading a row that is gone for to_dict()
\* raises ObjectDeletedError: both end the request with a 500.
update_commit(t) ==
    LET s == session[t]
    IN  /\ s.pc = "applied"
        /\ IF s.id \notin DOMAIN store
           THEN /\ response' = Respond("update_donation", 500, <<"Internal Server Error">>)
                /\ session' = [session EXCEPT ![t] = Idle]
                /\ UNCHANGED store
           ELSE /\ store' = flush(store, s.loaded, s.row)
                /\ response' = Respond("update_donation", 200, to_dict(store'[s.id]))
                /\ session' = [session EXCEPT ![t].pc = "done"]
        /\ UNCHANGED <<assigned, now>>
        /\ ConcIdle

\* one call of validate_payload
run_validate ==
    /\ validated = NotRun
    /\ validated' = validate_payload(payload, partial)
    /\ UNCHANGED <<store, assigned, now, response, session, payload, partial>>

(***************************************************************************)
(* Specifications                                                          *)
(***************************************************************************)
Init ==
    /\ store = [i \in {} |-> Idle]
    /\ assigned = {}
    /\ now = 0
    /\ response = NoResponse
    /\ session = [t \in Threads |-> Idle]
    /\ payload = EmptyDict
    /\ partial = FALSE
    /\ validated = NotRun

\* requests handled one at a time, each handler one transaction
Next ==
    \/ list_donations
    \/ \E p \in Requests : create_donation(TRUE, p)
    \/ create_donation(FALSE, UEmpty)
    \/ \E id \in Ids, p \in Requests : update_donation(TRUE, id, p)
    \/ \E id \in Ids : update_donation(FALSE, id, UEmpty)
    \/ \E id \in Ids : delete_donation(id)

Spec == Init /\ [][Next]_vars

\* update requests on several threads, overlapping
NextConc ==
    \/ create_donation(TRUE, PAl)
    \/ \E id \in Ids : delete_donation(id)
    \/ \E t \in Threads, id \in Ids, p \in ConcRequests : update_get(t, TRUE, id, p)
    \/ \E t \in Threads : update_apply(t)
    \/ \E t \in Threads : update_commit(t)

SpecConc == Init /\ [][NextConc]_vars

\* validate_payload on every payload of Payloads, in both modes
InitValidate ==
    /\ store = [i \in {} |-> Idle]
    /\ assigned = {}
    /\ now = 0
    /\ response = NoResponse
    /\ session = [t \in Threads |-> Idle]
    /\ payload \in Payloads
    /\ partial \in BOOLEAN
    /\ validated = NotRun

NextValidate == run_validate

SpecValidate == InitValidate /\ [][NextValidate]_vars

(***************************************************************************)
(* Properties of validate_payload (checked under SpecValidate)             *)
(***************************************************************************)
Ran == validated # NotRun
Rejected == Ran /\ validated.aborted /\ validated.code = 400
Accepted == Ran /\ ~validated.aborted

ExactType(v) == v.t = "str" /\ v.v \in {money, food, clothing, other}
TrimmedType(v) == v.t = "str" /\ strip(v.v) \in {money, food, clothing, other}

\* C2 as stated: a donation_type that is present and is not a string exactly
\* equal to one of the four values is rejected, in both modes.
C2_ExactTypeOnly ==
    Ran => LET v == Get(payload, "donation_type")
           IN  (v # None /\ ~ExactType(v)) => Rejected

\* C2 amended: a donation_type that is present (not null) is rejected unless
\* it is a string whose whitespace-stripped value is one of the four values;
\* when the payload is accepted the stripped value is the one returned.
C2_TrimmedTypeOnly ==
    Ran => LET v == Get(payload, "donation_type")
           IN  /\ (v # None /\ ~TrimmedType(v)) => Rejected
               /\ (v # None /\ Accepted) =>
                     /\ validated.value["donation_type"].v = strip(v.v)
                     /\ validated.value["donation_type"].v \in {money, food, clothing, other}
               /\ (v = None /\ Accepted) => "donation_type" \notin DOMAIN validated.value

C2_Witness ==
    /\ Accepted
    /\ Get(payload, "donation_type") = JStr(<<" ">> \o money \o <<"\n">>)
    /\ validated.value["donation_type"].v = money

\* C3: a quantity_or_amount that is present and is not an integer >= 1 (a
\* float, a numeric string, a JSON boolean, an integer < 1) is rejected, in
\* both modes.
C3_PositiveIntegerOnly ==
    Ran => LET v == Get(payload, "quantity_or_amount")
           IN  (v # None /\ ~(v.t = "int" /\ v.v >= 1)) => Rejected

\* the rules of the four fields: is the field's value one the validator is to reject
Violating(p, part, key) ==
    LET v == Get(p, key)
    IN  IF v = None THEN ~part
        ELSE CASE key = "donor_name" -> ~(v.t = "str" /\ strip(v.v) # <<>>)
               [] key = "donation_type" -> ~TrimmedType(v)
               [] key = "quantity_or_amount" -> ~(v.t = "int" /\ v.v >= 1)
               [] key = "date" -> ~(v.t = "str" /\ fromisoformat_date(v.v).ok)

FieldOrder == <<"donor_name", "donation_type", "quantity_or_amount", "date">>

FirstViolating(p, part) ==
    LET bad == {i \in 1..Len(FieldOrder) : Violating(p, part, FieldOrder[i])}
    IN  IF bad = {} THEN "" ELSE FieldOrder[CHOOSE i \in bad : \A j \in bad : i <= j]

\* the field a rejection message names
NamedField(description) ==
    CHOOSE key \in {FieldOrder[i] : i \in 1..Len(FieldOrder)} :
        \E i \in 1..Len(description) : description[i] = key

\* C9: the one rejection validate_payload returns is about the first
\* violating field in the order donor_name, donation_type,
\* quantity_or_amount, date (an absent field violating in full mode only).
C9_FirstViolationReported ==
    Rejected => NamedField(validated.description) = FirstViolating(payload, partial)

(***************************************************************************)
(* Properties of the handlers (checked under Spec)                         *)
(***************************************************************************)
\* the step ends with a response of the view function named
Answers(endpoint) == response'.endpoint = endpoint

ValidFull(p) == ~validate_request[p][FALSE].aborted
ValidPartial(p) == ~validate_request[p][TRUE].aborted

\* C1: every create assigns an id greater than every id assigned before,
\* the ids of deleted records included; a deleted id is never assigned again.
C1_IdsNeverReused ==
    [][\A i \in DOMAIN store' \ DOMAIN store : \A j \in assigned : i > j]_vars

\* C4: update with a valid partial field set, and delete, on an id that has
\* no record (never created, or deleted, a delete just before included)
\* answer 404 and leave every stored record as it was.
C4_MissingIdIsNotFound ==
    [][/\ \A id \in Ids \ DOMAIN store : \A p \in Requests :
             (ValidPartial(p) /\ Answers("update_donation") /\ update_donation(TRUE, id, p))
                => (response'.status = 404 /\ store' = store)
       /\ \A id \in Ids \ DOMAIN store :
             (Answers("delete_donation") /\ delete_donation(id)) => (response'.status = 404 /\ store' = store)]_vars

\* a delete of a deleted id has just been answered 404
C4_Witness ==
    /\ response = NotFound("delete_donation")
    /\ \E id \in assigned : id \notin DOMAIN store
    /\ DOMAIN store # {}

\* the value a validated field puts in its column
Supplied(data, c) ==
    CASE c = "donor_name" -> data[c].v
      [] c = "donation_type" -> data[c].v
      [] c = "quantity_or_amount" -> int_value(data[c])
      [] c = "date" -> data[c]

\* C5: a successful update sets exactly the business fields present in the
\* validated field set and sets updated_at to the current time; id,
\* created_at, the fields not supplied and every other record stay as they
\* were (with an empty field set only updated_at changes).
C5_UpdateFrame ==
    [][\A id \in DOMAIN store : \A p \in Requests :
          (ValidPartial(p) /\ Answers("update_donation") /\ update_donation(TRUE, id, p)) =>
             LET data == validate_request[p][TRUE].value
             IN  /\ response'.status = 200
                 /\ DOMAIN store' = DOMAIN store
                 /\ \A j \in DOMAIN store \ {id} : store'[j] = store[j]
                 /\ store'[id].id = id
                 /\ store'[id].created_at = store[id].created_at
                 /\ \A c \in BusinessColumns :
                       store'[id][c] = IF c \in DOMAIN data THEN Supplied(data, c)
                                       ELSE store[id][c]
                 /\ store'[id].updated_at = now'
                 /\ now' >= now]_vars

\* an update has changed updated_at and the quantity of a record and nothing else
C5_Witness ==
    /\ response.endpoint = "update_donation" /\ response.status = 200
    /\ \E id \in DOMAIN store :
          /\ response.body = to_dict(store[id])
          /\ store[id].updated_at > store[id].created_at
          /\ store[id].donor_name = Al /\ store[id].quantity_or_amount = 1

\* what a create is to return for a request body, field by field
Exactly(p, body) ==
    /\ p["donor_name"].v = body.donor_name
    /\ p["donation_type"].v = body.donation_type
    /\ p["quantity_or_amount"] = JInt(body.quantity_or_amount)
    /\ SubSeq(p["date"].v, 1, 10) = body.date
Trimmed(p, body) ==
    /\ strip(p["donor_name"].v) = body.donor_name
    /\ strip(p["donation_type"].v) = body.donation_type
    /\ int_value(p["quantity_or_amount"]) = body.quantity_or_amount
    /\ SubSeq(p["date"].v, 1, 10) = body.date

Descending(rows) == \A i \in 1..Len(rows) : \A j \in 1..Len(rows) : i < j => rows[i].id > rows[j].id

\* list returns every record, in strictly descending id order
ListsAll ==
    response.endpoint = "list_donations" =>
       /\ Descending(response.body)
       /\ {response.body[i] : i \in 1..Len(response.body)} = {to_dict(store[i]) : i \in DOMAIN store}
       /\ Len(response.body) = Cardinality(DOMAIN store)

\* a create of the valid full payload p, then list: the new record first
CreatedFirst(p, exact) ==
    (ValidFull(p) /\ Answers("create_donation") /\ create_donation(TRUE, p)) =>
       /\ response'.status = 201
       /\ \A j \in DOMAIN store : response'.body.id > j
       /\ IF exact THEN Exactly(p, response'.body) ELSE Trimmed(p, response'.body)
       /\ Head(list_body(store')) = response'.body

\* C6 as stated: list is in descending id order, and a create followed by
\* list shows the new record first with donor_name, donation_type and
\* quantity_or_amount equal to the input and the date as YYYY-MM-DD.
C6_CreateThenListExact ==
    [][\A p \in Requests : CreatedFirst(p, TRUE)]_vars

\* C6 amended: the same, with donor_name and donation_type equal to the input
\* stripped of surrounding whitespace and quantity_or_amount equal to the
\* input's integer value.
C6_CreateThenListTrimmed ==
    /\ []ListsAll
    /\ [][\A p \in Requests : CreatedFirst(p, FALSE)]_vars

\* a second record was created from " Al " and is returned as "Al"
C6_Witness ==
    /\ response.endpoint = "create_donation" /\ response.status = 201
    /\ response.body.donor_name = Al
    /\ response.body.id = 2
    /\ Cardinality(DOMAIN store) = 2

C8_InvalidNeverReachesStore ==
    [][/\ \A p \in Requests :
             (~ValidFull(p) /\ Answers("create_donation") /\ create_donation(TRUE, p))
                => (response'.status = 400 /\ UNCHANGED <<store, assigned, now>>)
       /\ \A id \in Ids : \A p \in Requests :
             (~ValidPartial(p) /\ Answers("update_donation") /\ update_donation(TRUE, id, p))
                => (response'.status = 400 /\ UNCHANGED <<store, assigned, now>>)]_vars

\* an update with an invalid payload was answered 400 while no record exists
C8_Witness ==
    /\ response.endpoint = "update_donation" /\ response.status = 400
    /\ response.body # <<"Request must be application/json">>
    /\ DOMAIN store = {}
    /\ assigned # {}

(***************************************************************************)
(* Overlapping updates (checked under SpecConc)                            *)
(***************************************************************************)
\* thread t commits its update of a record that thread u, which read the
\* same version of the record, has updated and committed just before
CommitsLast(t, u) ==
    /\ t # u
    /\ session[t].pc = "applied" /\ session'[t].pc = "done"
    /\ session[u].pc = "done"
    /\ session[u].id = session[t].id
    /\ session[u].loaded = session[t].loaded
    /\ session[t].id \in DOMAIN store
    /\ store[session[t].id] = session[u].row

\* C10: when two updates of one record overlap, every field both supplied
\* ends with the value of the request that committed last, every field
\* neither supplied keeps its value, and updated_at is the timestamp the
\* request that committed last has set.
C10_LastWriteWins ==
    [][\A t \in Threads : \A u \in Threads :
          CommitsLast(t, u) =>
             LET last == session[t]
                 final == store'[last.id]
             IN  /\ \A c \in BusinessColumns :
                       /\ (c \in DOMAIN last.data /\ c \in DOMAIN session[u].data)
                             => final[c] = Supplied(last.data, c)
                       /\ (c \notin DOMAIN last.data /\ c \notin DOMAIN session[u].data)
                             => final[c] = last.loaded[c]
                 /\ final.updated_at = last.row.updated_at]_vars

====
